---- MODULE Spec2Model ----
(***************************************************************************)
(* The TTS asset pipeline of korean-practice-hub.                          *)
(*                                                                         *)
(*   scripts/build_tts.py : main() copies reusable artifacts from          *)
(*       TTS-Central, synthesizes the others through a semaphore of 5,     *)
(*       writes manifest.json and removes the orphaned .mp3 files.         *)
(*   generate_tts.py      : main() synthesizes every text through a        *)
(*       semaphore of 5 and writes manifest.json.                          *)
(*                                                                         *)
(* A text is the sequence of its code points (Python compares strings by   *)
(* code point, so sorted() is the lexicographic order on these sequences). *)
(* A file name is a string.  A directory is a function from the names of   *)
(* its files to their contents.                                            *)
(***************************************************************************)
EXTENDS Integers, Sequences, FiniteSets, TLC

VARIABLES
    script,           \* which program runs: "build_tts" or "generate_tts"
    rawTexts,         \* the set `texts` the extraction loops have filled
    centralFile,      \* CENTRAL_MANIFEST on disk: whether it exists, and text -> file name
    centralAudio,     \* CENTRAL_AUDIO directory: file name -> content
    store,            \* AUDIO_DIR without manifest.json: file name -> content
    diskManifest,     \* AUDIO_DIR/manifest.json: whether it exists, and its entries
    pc,               \* position of main()
    texts,            \* main: texts (sorted list)
    central_manifest, \* main: central_manifest (dict, as a function)
    i,                \* main: number of loop iterations done
    manifest,         \* main: manifest (dict, as its items in insertion order)
    to_generate,      \* main: to_generate / the arguments of tasks
    copied,           \* main: copied
    task,             \* state of each coroutine handed to asyncio.gather
    sem,              \* asyncio.Semaphore: its _value
    counter,          \* counter[0] / generated_count
    listing,          \* orphan sweep: names of os.listdir still to visit
    removed,          \* main: removed
    synthStarted,     \* history: texts whose tts.save was started in this run
    copiedTexts,      \* history: texts copied from central in this run
    lastResult        \* history: manifest and artifact names left by the previous run

vars == <<script, rawTexts, centralFile, centralAudio, store, diskManifest, pc,
          texts, central_manifest, i, manifest, to_generate, copied, task, sem,
          counter, listing, removed, synthStarted, copiedTexts, lastResult>>

(***************************************************************************)
(* Bounds of the model.                                                    *)
(***************************************************************************)
MaxTexts == 6      \* at most this many texts are extracted

(***************************************************************************)
(* Program constants.                                                      *)
(***************************************************************************)
SemLimit == 5      \* asyncio.Semaphore(5)

ManifestName == "manifest.json"

(***************************************************************************)
(* The corpus: Korean words, in the order the extraction meets them.       *)
(***************************************************************************)
Annyeong == <<50504, 45397>>                    \* U+C548 U+B155
Saranghaeyo == <<49324, 46993, 54644, 50836>>   \* U+C0AC U+B791 U+D574 U+C694
Hakgyo == <<54617, 44368>>                      \* U+D559 U+AD50
Mul == <<47932>>                                \* U+BB3C
Bap == <<48165>>                                \* U+BC25
Jip == <<51665>>                                \* U+C9D1
Chaek == <<52293>>                              \* U+CC45
Gayo == <<44032, 50836>>                        \* U+AC00 U+C694
EmptyText == << >>                              \* ''

Corpus == <<Annyeong, Saranghaeyo, Hakgyo, Mul, Bap, Jip, Chaek, Gayo>>

\* hashlib.md5(text.encode('utf-8')).hexdigest()[:6], tabulated for the corpus
Md5Hex6(text) ==
    CASE text = Annyeong    -> "ef1c51"
      [] text = Saranghaeyo -> "137a01"
      [] text = Hakgyo      -> "09b9db"
      [] text = Mul         -> "3558e1"
      [] text = Bap         -> "f56bae"
      [] text = Jip         -> "4f1558"
      [] text = Chaek       -> "ce1c31"
      [] text = Gayo        -> "5b6f1c"
      [] text = EmptyText   -> "d41d8c"

\* f'{index:04d}'
Pad4(index) ==
    IF index < 10 THEN "000" \o ToString(index)
    ELSE IF index < 100 THEN "00" \o ToString(index)
    ELSE IF index < 1000 THEN "0" \o ToString(index)
    ELSE ToString(index)

\* repo_filename(text, index) and text_to_filename(text, index)
repo_filename(text, index) == Pad4(index) \o "_" \o Md5Hex6(text) \o ".mp3"

\* f.endswith('.mp3')
EndsWithMp3(f) == Len(f) >= 4 /\ SubSeq(f, Len(f) - 3, Len(f)) = ".mp3"

(***************************************************************************)
(* sorted(texts): Python orders strings by code point, lexicographically.  *)
(***************************************************************************)
StrLess(a, b) ==
    \E k \in 1..(Len(a) + 1) :
        /\ k <= Len(b) + 1
        /\ \A j \in 1..(k - 1) : a[j] = b[j]
        /\ IF k > Len(a) THEN k <= Len(b)
           ELSE k <= Len(b) /\ a[k] < b[k]

RECURSIVE sorted(_)
sorted(S) ==
    IF S = {} THEN << >>
    ELSE LET least == CHOOSE a \in S : \A b \in S \ {a} : StrLess(a, b)
         IN <<least>> \o sorted(S \ {least})

(***************************************************************************)
(* Files.                                                                  *)
(***************************************************************************)
Old(text) == [kind |-> "old", text |-> text]          \* left by an earlier build
Central(text) == [kind |-> "central", text |-> text]  \* audio held by TTS-Central
Spoken(text) == [kind |-> "tts", text |-> text]       \* complete output of tts.save

EmptyDir == [f \in {} |-> Old(EmptyText)]

\* a JSON file that may be missing
NoFile(content) == [exists |-> FALSE, content |-> content]
File(content) == [exists |-> TRUE, content |-> content]

\* open(path, 'wb') ... / shutil.copy2: the file is created or replaced
WriteFile(dir, name, data) ==
    [f \in DOMAIN dir \cup {name} |-> IF f = name THEN data ELSE dir[f]]

\* os.remove
RemoveFile(dir, name) == [f \in DOMAIN dir \ {name} |-> dir[f]]

Entry(text, fname) == [text |-> text, fname |-> fname]

\* manifest[text] = fname on a dict kept as its items in insertion order
DictPut(d, text, fname) ==
    IF \E k \in 1..Len(d) : d[k].text = text
    THEN [k \in 1..Len(d) |-> IF d[k].text = text THEN Entry(text, fname) ELSE d[k]]
    ELSE Append(d, Entry(text, fname))

Keys(d) == {d[k].text : k \in 1..Len(d)}
Values(d) == {d[k].fname : k \in 1..Len(d)}

(***************************************************************************)
(* The inputs of a run.                                                    *)
(***************************************************************************)
Prefix(n) == {Corpus[k] : k \in 1..n}

\* the extracted set: the first n words of the corpus, with or without ''
RawTextSets ==
    {Prefix(n) : n \in 0..MaxTexts} \cup {Prefix(n) \cup {EmptyText} : n \in {0, 2}}

\* TTS-Central: no manifest; a manifest whose files are all there; a manifest
\* with a stale entry (a2.mp3 is gone)
ReferenceManifest == [t \in {Annyeong, Mul} |-> IF t = Annyeong THEN "a1.mp3" ELSE "a2.mp3"]
CentralCases ==
    { [file |-> NoFile(EmptyDir), audio |-> EmptyDir],
      [file |-> File(ReferenceManifest),
       audio |-> [f \in {"a1.mp3", "a2.mp3"} |->
                     IF f = "a1.mp3" THEN Central(Annyeong) ELSE Central(Mul)]],
      [file |-> File(ReferenceManifest),
       audio |-> [f \in {"a1.mp3"} |-> Central(Annyeong)]] }

\* AUDIO_DIR: empty; or the files of an earlier build: its manifest, an artifact
\* under a name this run may assign again, an artifact of a word since dropped,
\* and a file that is no artifact; or a manifest one of whose files is missing
OldWord == <<50739>>
StoreCases ==
    { [store |-> EmptyDir, manifest |-> NoFile(<< >>)],
      [store |-> [f \in {"0000_ef1c51.mp3", "0007_0a0b0c.mp3", "notes.txt"} |->
                     IF f = "0000_ef1c51.mp3" THEN Old(Annyeong) ELSE Old(OldWord)],
       manifest |-> File(<<Entry(Annyeong, "0000_ef1c51.mp3"),
                           Entry(OldWord, "0007_0a0b0c.mp3")>>)],
      [store |-> [f \in {"0007_0a0b0c.mp3"} |-> Old(OldWord)],
       manifest |-> File(<<Entry(Annyeong, "0000_ef1c51.mp3"),
                           Entry(OldWord, "0007_0a0b0c.mp3")>>)] }

NoTasks == << >>

\* what a finished run leaves in AUDIO_DIR: the manifest and the artifact names
Result(m, names) == [known |-> TRUE, manifest |-> m, artifacts |-> names]
NoResult == [known |-> FALSE, manifest |-> << >>, artifacts |-> {}]

Init ==
    /\ script \in {"build_tts", "generate_tts"}
    /\ rawTexts \in RawTextSets
    /\ \E c \in CentralCases :
          /\ centralFile = c.file
          /\ centralAudio = c.audio
          /\ script = "generate_tts" => ~c.file.exists
    /\ \E s \in StoreCases :
          /\ store = s.store
          /\ diskManifest = s.manifest
    /\ pc = "start"
    /\ texts = << >>
    /\ central_manifest = EmptyDir
    /\ i = 0
    /\ manifest = << >>
    /\ to_generate = << >>
    /\ copied = 0
    /\ task = NoTasks
    /\ sem = SemLimit
    /\ counter = 0
    /\ listing = {}
    /\ removed = 0
    /\ synthStarted = {}
    /\ copiedTexts = {}
    /\ lastResult = NoResult

(***************************************************************************)
(* build_tts.py: main()                                                    *)
(***************************************************************************)
Reverse(s) == [k \in 1..Len(s) |-> s[Len(s) + 1 - k]]

\* the texts are returned in the iteration order of the set, which changes
\* from one process to the next
extract_all_texts_unsorted ==
    IF lastResult.known THEN Reverse(sorted(rawTexts \ {EmptyText}))
    ELSE sorted(rawTexts \ {EmptyText})

\* texts.discard(''); return sorted(texts)
extract_all_texts == sorted(rawTexts \ {EmptyText})

\* lines 130-145: extraction, the central manifest, the empty containers
Start ==
    /\ script = "build_tts"
    /\ pc = "start"
    /\ texts' = extract_all_texts
    /\ central_manifest' = IF centralFile.exists THEN centralFile.content ELSE EmptyDir
    /\ manifest' = << >>
    /\ to_generate' = << >>
    /\ copied' = 0
    /\ i' = 0
    /\ pc' = "loop"
    /\ UNCHANGED <<script, rawTexts, centralFile, centralAudio, store, diskManifest,
                   task, sem, counter, listing, removed, synthStarted,
                   copiedTexts, lastResult>>

\* lines 153-156: text in central_manifest and os.path.exists(central_path)
CacheHit(text) ==
    /\ text \in DOMAIN central_manifest
    /\ central_manifest[text] \in DOMAIN centralAudio

\* the `continue` is missing
FallsThroughAlways(text) == TRUE

\* the `continue` is one level too far out: it ends the iteration of every
\* text the central manifest lists
FallsThroughUnlisted(text) == text \notin DOMAIN central_manifest

\* lines 159-161: without a copy there is no `continue`, and control reaches
\* to_generate.append
FallsThrough(text) == ~CacheHit(text)

\* one iteration of `for i, text in enumerate(texts)` (lines 147-161)
LoopStep ==
    /\ script = "build_tts"
    /\ pc = "loop"
    /\ i < Len(texts)
    /\ LET text == texts[i + 1]
           fname == repo_filename(text, i)
       IN /\ manifest' = DictPut(manifest, text, fname)
          /\ IF CacheHit(text)
             THEN /\ store' = WriteFile(store, fname, centralAudio[central_manifest[text]])
                  /\ copied' = copied + 1
                  /\ copiedTexts' = copiedTexts \cup {text}
             ELSE UNCHANGED <<store, copied, copiedTexts>>
          /\ IF FallsThrough(text)
             THEN to_generate' = Append(to_generate, [text |-> text, fpath |-> fname])
             ELSE UNCHANGED to_generate
    /\ i' = i + 1
    /\ UNCHANGED <<script, rawTexts, centralFile, centralAudio, diskManifest, pc,
                   texts, central_manifest, task, sem, counter, listing, removed,
                   synthStarted, lastResult>>

\* the coroutines of `tasks`, none of them started
NewTasks(n) == [k \in 1..n |-> "pending"]

\* lines 163-170: with work to do, the semaphore, the counter and the tasks are
\* made and main awaits asyncio.gather; with none, main goes on to the manifest
StartGather ==
    /\ script = "build_tts"
    /\ pc = "loop"
    /\ i = Len(texts)
    /\ IF to_generate # << >>
       THEN /\ sem' = SemLimit
            /\ counter' = 0
            /\ task' = NewTasks(Len(to_generate))
            /\ pc' = "gather"
       ELSE /\ pc' = "write"
            /\ UNCHANGED <<sem, counter, task>>
    /\ UNCHANGED <<script, rawTexts, centralFile, centralAudio, store, diskManifest,
                   texts, central_manifest, i, manifest, to_generate, copied,
                   listing, removed, synthStarted, copiedTexts, lastResult>>

(***************************************************************************)
(* The coroutines generate_tts(text, filepath, sem, counter) of build_tts  *)
(* and generate(text, filepath, sem) of generate_tts.                      *)
(***************************************************************************)
\* a semaphore that never blocks
lockedNever == FALSE

\* asyncio.Semaphore.locked()
locked == sem = 0

\* `async with sem` entered, os.makedirs, edge_tts.Communicate, tts.save begun
Enter(k) ==
    /\ pc = "gather"
    /\ task[k] = "pending"
    /\ ~locked
    /\ sem' = sem - 1
    /\ task' = [task EXCEPT ![k] = "saving"]
    /\ synthStarted' = synthStarted \cup {to_generate[k].text}
    /\ UNCHANGED <<script, rawTexts, centralFile, centralAudio, store, diskManifest,
                   pc, texts, central_manifest, i, manifest, to_generate, copied,
                   counter, listing, removed, copiedTexts, lastResult>>

\* tts.save returned: the file is written, the counter bumped, the slot released
Saved(k) ==
    /\ pc = "gather"
    /\ task[k] = "saving"
    /\ store' = WriteFile(store, to_generate[k].fpath, Spoken(to_generate[k].text))
    /\ counter' = counter + 1
    /\ sem' = sem + 1
    /\ task' = [task EXCEPT ![k] = "done"]
    /\ UNCHANGED <<script, rawTexts, centralFile, centralAudio, diskManifest, pc,
                   texts, central_manifest, i, manifest, to_generate, copied,
                   listing, removed, synthStarted, copiedTexts, lastResult>>

\* tts.save raised: no artifact is left (the synthesis capability yields the
\* audio or fails), and the exception leaves `async with`, which releases the slot
Raised(k) ==
    /\ pc = "gather"
    /\ task[k] = "saving"
    /\ sem' = sem + 1
    /\ task' = [task EXCEPT ![k] = "failed"]
    /\ UNCHANGED <<script, rawTexts, centralFile, centralAudio, store, diskManifest,
                   pc, texts, central_manifest, i, manifest, to_generate, copied,
                   counter, listing, removed, synthStarted, copiedTexts,
                   lastResult>>

\* the tasks are started and not awaited
GatherReturnsEarly == TRUE

\* gather(..., return_exceptions=True): it returns once every task has ended
GatherReturnsExceptions == \A k \in DOMAIN task : task[k] \in {"done", "failed"}

\* asyncio.gather(*tasks) returns once every task has returned
GatherReturns == \A k \in DOMAIN task : task[k] = "done"

\* asyncio.gather(*tasks) without return_exceptions raises the first exception
GatherRaises == \E k \in DOMAIN task : task[k] = "failed"

\* the exception leaves main(); asyncio.run cancels the tasks still alive: one
\* waiting for the semaphore just ends, one inside tts.save releases its slot
Abort ==
    /\ pc = "gather"
    /\ GatherRaises
    /\ LET saving == {k \in DOMAIN task : task[k] = "saving"}
       IN sem' = sem + Cardinality(saving)
    /\ task' = [k \in DOMAIN task |->
                   IF task[k] \in {"pending", "saving"} THEN "cancelled" ELSE task[k]]
    /\ pc' = "aborted"
    /\ UNCHANGED <<script, rawTexts, centralFile, centralAudio, store, diskManifest,
                   texts, central_manifest, i, manifest, to_generate, copied,
                   counter, listing, removed, synthStarted, copiedTexts,
                   lastResult>>

generate_tts_enter(k) == script = "build_tts" /\ Enter(k)
generate_tts_saved(k) == script = "build_tts" /\ Saved(k)
generate_tts_raised(k) == script = "build_tts" /\ Raised(k)

\* line 170: await asyncio.gather(*tasks) returns
GatherDone ==
    /\ script = "build_tts"
    /\ pc = "gather"
    /\ GatherReturns
    /\ pc' = "write"
    /\ UNCHANGED <<script, rawTexts, centralFile, centralAudio, store, diskManifest,
                   texts, central_manifest, i, manifest, to_generate, copied, task,
                   sem, counter, listing, removed, synthStarted, copiedTexts,
                   lastResult>>

\* line 170: await asyncio.gather(*tasks) raises
GatherFailed == script = "build_tts" /\ Abort

\* lines 172-175: json.dump(manifest) into AUDIO_DIR/manifest.json
WriteManifest ==
    /\ script = "build_tts"
    /\ pc = "write"
    /\ diskManifest' = File(manifest)
    /\ pc' = "listdir"
    /\ UNCHANGED <<script, rawTexts, centralFile, centralAudio, store, texts,
                   central_manifest, i, manifest, to_generate, copied, task, sem,
                   counter, listing, removed, synthStarted, copiedTexts,
                   lastResult>>

\* lines 178-180: valid, removed = 0, os.listdir(AUDIO_DIR)
ListDir ==
    /\ script = "build_tts"
    /\ pc = "listdir"
    /\ listing' = DOMAIN store \cup {ManifestName}
    /\ removed' = 0
    /\ pc' = "sweep"
    /\ UNCHANGED <<script, rawTexts, centralFile, centralAudio, store, diskManifest,
                   texts, central_manifest, i, manifest, to_generate, copied, task,
                   sem, counter, synthStarted, copiedTexts, lastResult>>

\* the membership test the wrong way round
IsOrphanInverted(f, valid) == EndsWithMp3(f) /\ f \in valid

\* line 181: f.endswith('.mp3') and f not in valid
IsOrphan(f, valid) == EndsWithMp3(f) /\ f \notin valid

\* lines 180-183: one iteration of the sweep, in whatever order listdir gave
SweepStep ==
    /\ script = "build_tts"
    /\ pc = "sweep"
    /\ \E f \in listing :
          /\ listing' = listing \ {f}
          /\ IF IsOrphan(f, Values(manifest))
             THEN /\ store' = RemoveFile(store, f)
                  /\ removed' = removed + 1
             ELSE UNCHANGED <<store, removed>>
    /\ UNCHANGED <<script, rawTexts, centralFile, centralAudio, diskManifest, pc,
                   texts, central_manifest, i, manifest, to_generate, copied, task,
                   sem, counter, synthStarted, copiedTexts, lastResult>>

\* lines 185-192: the sweep is over, the summary is printed, main returns
Finish ==
    /\ script = "build_tts"
    /\ pc = "sweep"
    /\ listing = {}
    /\ pc' = "done"
    /\ UNCHANGED <<script, rawTexts, centralFile, centralAudio, store, diskManifest,
                   texts, central_manifest, i, manifest, to_generate, copied, task,
                   sem, counter, listing, removed, synthStarted, copiedTexts,
                   lastResult>>

(***************************************************************************)
(* generate_tts.py: main()                                                 *)
(***************************************************************************)
\* lines 138-156: the texts are extracted, '' discarded, the rest sorted; the
\* manifest, the semaphore and the task list are made
GStart ==
    /\ script = "generate_tts"
    /\ pc = "start"
    /\ texts' = sorted(rawTexts \ {EmptyText})
    /\ manifest' = << >>
    /\ sem' = SemLimit
    /\ to_generate' = << >>
    /\ counter' = 0
    /\ i' = 0
    /\ pc' = "loop"
    /\ UNCHANGED <<script, rawTexts, centralFile, centralAudio, store, diskManifest,
                   central_manifest, copied, task, listing, removed, synthStarted, copiedTexts, lastResult>>

\* lines 158-162: one iteration of `for i, text in enumerate(texts)`
GLoopStep ==
    /\ script = "generate_tts"
    /\ pc = "loop"
    /\ i < Len(texts)
    /\ LET text == texts[i + 1]
           fname == repo_filename(text, i)
       IN /\ manifest' = DictPut(manifest, text, fname)
          /\ to_generate' = Append(to_generate, [text |-> text, fpath |-> fname])
    /\ i' = i + 1
    /\ UNCHANGED <<script, rawTexts, centralFile, centralAudio, store, diskManifest,
                   pc, texts, central_manifest, copied, task, sem, counter, listing,
                   removed, synthStarted, copiedTexts, lastResult>>

\* line 164: main awaits asyncio.gather(*tasks)
GStartGather ==
    /\ script = "generate_tts"
    /\ pc = "loop"
    /\ i = Len(texts)
    /\ task' = NewTasks(Len(to_generate))
    /\ pc' = "gather"
    /\ UNCHANGED <<script, rawTexts, centralFile, centralAudio, store, diskManifest,
                   texts, central_manifest, i, manifest, to_generate, copied, sem,
                   counter, listing, removed, synthStarted, copiedTexts,
                   lastResult>>

generate_enter(k) == script = "generate_tts" /\ Enter(k)
generate_saved(k) == script = "generate_tts" /\ Saved(k)
generate_raised(k) == script = "generate_tts" /\ Raised(k)

\* line 164: await asyncio.gather(*tasks) returns
GGatherDone ==
    /\ script = "generate_tts"
    /\ pc = "gather"
    /\ GatherReturns
    /\ pc' = "write"
    /\ UNCHANGED <<script, rawTexts, centralFile, centralAudio, store, diskManifest,
                   texts, central_manifest, i, manifest, to_generate, copied, task,
                   sem, counter, listing, removed, synthStarted, copiedTexts,
                   lastResult>>

\* line 164: await asyncio.gather(*tasks) raises
GGatherFailed == script = "generate_tts" /\ Abort

\* lines 166-177: manifest.json is written, the summary printed, main returns
GWriteManifest ==
    /\ script = "generate_tts"
    /\ pc = "write"
    /\ diskManifest' = File(manifest)
    /\ pc' = "done"
    /\ UNCHANGED <<script, rawTexts, centralFile, centralAudio, store, texts,
                   central_manifest, i, manifest, to_generate, copied, task, sem,
                   counter, listing, removed, synthStarted, copiedTexts,
                   lastResult>>

(***************************************************************************)
(* The operator runs the program again on the store it left, with the      *)
(* inputs unchanged.                                                       *)
(***************************************************************************)
Artifacts(dir) == {f \in DOMAIN dir : EndsWithMp3(f)}

Rerun ==
    /\ pc = "done"
    /\ lastResult' = Result(diskManifest.content, Artifacts(store))
    /\ pc' = "start"
    /\ texts' = << >>
    /\ central_manifest' = EmptyDir
    /\ i' = 0
    /\ manifest' = << >>
    /\ to_generate' = << >>
    /\ copied' = 0
    /\ task' = NoTasks
    /\ sem' = SemLimit
    /\ counter' = 0
    /\ listing' = {}
    /\ removed' = 0
    /\ synthStarted' = {}
    /\ copiedTexts' = {}
    /\ UNCHANGED <<script, rawTexts, centralFile, centralAudio, store, diskManifest>>

Next ==
    \/ Start
    \/ LoopStep
    \/ StartGather
    \/ \E k \in DOMAIN task : generate_tts_enter(k)
    \/ \E k \in DOMAIN task : generate_tts_saved(k)
    \/ \E k \in DOMAIN task : generate_tts_raised(k)
    \/ GatherDone
    \/ GatherFailed
    \/ WriteManifest
    \/ ListDir
    \/ SweepStep
    \/ Finish
    \/ GStart
    \/ GLoopStep
    \/ GStartGather
    \/ \E k \in DOMAIN task : generate_enter(k)
    \/ \E k \in DOMAIN task : generate_saved(k)
    \/ \E k \in DOMAIN task : generate_raised(k)
    \/ GGatherDone
    \/ GGatherFailed
    \/ GWriteManifest
    \/ Rerun

Spec == Init /\ [][Next]_vars

(***************************************************************************)
(* Properties.                                                             *)
(***************************************************************************)
InFlight == {k \in DOMAIN task : task[k] = "saving"}
Waiting == {k \in DOMAIN task : task[k] = "pending"}

\* C1: in every state of a run of either program, whatever the number of
\* pending items, at most 5 synthesis calls have started and not yet completed.
C1_AtMostFiveInFlight == Cardinality(InFlight) <= 5

\* more than 5 items are pending, 5 of them are inside tts.save and one waits
C1_Witness ==
    /\ script = "build_tts"
    /\ Len(to_generate) > 5
    /\ Cardinality(InFlight) = 5
    /\ Waiting # {}

\* some task's tts.save has raised in this run
SynthesisFailed == \E k \in DOMAIN task : task[k] = "failed"

\* C2: when build_tts.main is done and no synthesis failed, the .mp3 files of
\* the store directory are exactly the values of the manifest just written: no
\* unreferenced artifact is left and no referenced artifact is missing.
C2_NoOrphans ==
    (script = "build_tts" /\ pc = "done" /\ ~SynthesisFailed) =>
        /\ diskManifest = File(manifest)
        /\ \A f \in Artifacts(store) : f \in Values(diskManifest.content)
        /\ \A f \in Values(diskManifest.content) : f \in Artifacts(store)

\* a finished run that synthesized, copied and removed an orphan of the old
\* store, and which left the file that is no artifact alone
C2_Witness ==
    /\ script = "build_tts"
    /\ pc = "done"
    /\ removed > 0
    /\ copied > 0
    /\ synthStarted # {}
    /\ "notes.txt" \in DOMAIN store

\* main has returned or has raised
RunEnded == pc \in {"done", "aborted"}

Required == rawTexts \ {EmptyText}

\* C3: after a run of build_tts.main every required text has exactly one entry
\* in the written manifest, which has no other key; without synthesis failure
\* each entry's artifact is in the store, copied from central or synthesized.
C3_Completeness ==
    (script = "build_tts" /\ RunEnded) =>
        /\ diskManifest.exists
        /\ Keys(diskManifest.content) = Required
        /\ \A t \in Required :
              Cardinality({k \in 1..Len(diskManifest.content) :
                              diskManifest.content[k].text = t}) = 1
        /\ ~SynthesisFailed =>
              \A k \in 1..Len(diskManifest.content) :
                 LET e == diskManifest.content[k]
                 IN /\ e.fname \in DOMAIN store
                    /\ store[e.fname] \in {Central(e.text), Spoken(e.text)}

\* the reference manifest lists the text and its file is in the reference store
ValidRef(t) ==
    /\ centralFile.exists
    /\ t \in DOMAIN centralFile.content
    /\ centralFile.content[t] \in DOMAIN centralAudio

\* the reference manifest lists the text and its file is gone
StaleRef(t) ==
    /\ centralFile.exists
    /\ t \in DOMAIN centralFile.content
    /\ centralFile.content[t] \notin DOMAIN centralAudio

\* C4: a required text with a valid reference is copied from the reference
\* store to its local path, and synthesis is never invoked for it.
C4_CachePrecedence ==
    script = "build_tts" =>
        /\ \A t \in synthStarted : ~ValidRef(t)
        /\ \A k \in 1..i :
              ValidRef(texts[k]) =>
                 LET f == repo_filename(texts[k], k - 1)
                 IN /\ texts[k] \in copiedTexts
                    /\ \A j \in 1..Len(to_generate) : to_generate[j].text # texts[k]
                    /\ f \in DOMAIN store
                    /\ store[f] = centralAudio[centralFile.content[texts[k]]]

\* a finished run that copied the word with a valid reference and synthesized others
C4_Witness ==
    /\ script = "build_tts"
    /\ pc = "done"
    /\ ValidRef(Annyeong)
    /\ Annyeong \in copiedTexts
    /\ Cardinality(synthStarted) >= 2

AfterGather == pc \in {"write", "listdir", "sweep", "done"}

\* C5: a required text with a stale reference does not make the run fail and is
\* not copied: it goes to to_generate and is synthesized, and every other text
\* is copied exactly when its own reference is valid.
C5_StaleReferenceFallsBack ==
    script = "build_tts" =>
        /\ pc = "aborted" => SynthesisFailed
        /\ \A k \in 1..i :
              LET t == texts[k]
                  f == repo_filename(t, k - 1)
              IN /\ t \in copiedTexts <=> ValidRef(t)
                 /\ StaleRef(t) =>
                       /\ t \notin copiedTexts
                       /\ \E j \in 1..Len(to_generate) :
                             to_generate[j] = [text |-> t, fpath |-> f]
                       /\ AfterGather =>
                             /\ t \in synthStarted
                             /\ f \in DOMAIN store
                             /\ store[f] = Spoken(t)

\* a finished run in which the word with the stale reference was synthesized
\* while the word with the valid one was copied
C5_Witness ==
    /\ script = "build_tts"
    /\ pc = "done"
    /\ StaleRef(Mul)
    /\ Mul \in synthStarted
    /\ ValidRef(Annyeong)
    /\ Annyeong \in copiedTexts

\* C6: when one synthesis call fails the batch is not aborted: every other
\* pending item is synthesized and its artifact written, and the run writes
\* the manifest and sweeps the orphans.
C6_BatchNotAborted ==
    (script = "build_tts" /\ RunEnded /\ SynthesisFailed) =>
        /\ \A k \in DOMAIN task :
              task[k] # "failed" =>
                 /\ task[k] = "done"
                 /\ to_generate[k].fpath \in DOMAIN store
                 /\ store[to_generate[k].fpath] = Spoken(to_generate[k].text)
        /\ diskManifest = File(manifest)
        /\ pc = "done"
        /\ \A f \in Artifacts(store) : f \in Values(manifest)

\* C7: after a run in which the synthesis of a required text failed, the
\* manifest the run persisted holds the entry text -> derived identifier.
C7_FailedEntryPersisted ==
    (script = "build_tts" /\ RunEnded) =>
        \A k \in DOMAIN task :
           task[k] = "failed" =>
              /\ diskManifest.exists
              /\ \E j \in 1..Len(diskManifest.content) :
                    diskManifest.content[j] =
                        Entry(to_generate[k].text, to_generate[k].fpath)

\* the manifest the inputs determine: the sorted texts, each with its identifier
ExpectedManifest ==
    LET s == sorted(Required)
    IN [k \in 1..Len(s) |-> Entry(s[k], repo_filename(s[k], k - 1))]

\* C8: a failure-free run of build_tts.main ends with the manifest and the
\* artifact names that the inputs alone determine, whatever the order of the
\* synthesis calls and the earlier content of the store; a second run on the
\* store of the first leaves the same manifest and the same artifact names.
C8_Idempotent ==
    (script = "build_tts" /\ pc = "done" /\ ~SynthesisFailed) =>
        /\ diskManifest = File(ExpectedManifest)
        /\ Artifacts(store) = Values(ExpectedManifest)
        /\ lastResult.known =>
              lastResult = Result(diskManifest.content, Artifacts(store))

\* the second run in a row is done, having synthesized several texts
C8_Witness ==
    /\ script = "build_tts"
    /\ pc = "done"
    /\ lastResult.known
    /\ Cardinality(synthStarted) >= 3
    /\ copied > 0

\* C9: build_tts.main deletes a file only in the sweep, when every copy is
\* made, every synthesis task has completed and the manifest is written; the
\* file deleted is never the artifact of a required text.
C9_SweepAfterAllWork ==
    [][\A f \in DOMAIN store :
          f \notin DOMAIN store' =>
             /\ script = "build_tts"
             /\ pc = "sweep"
             /\ i = Len(texts)
             /\ \A k \in DOMAIN task : task[k] = "done"
             /\ diskManifest = File(manifest)
             /\ f \notin Values(manifest)]_vars

\* the sweep has deleted a file in a run that copied and synthesized
C9_Witness ==
    /\ script = "build_tts"
    /\ pc = "sweep"
    /\ removed > 0
    /\ copied > 0
    /\ Len(to_generate) >= 2
    /\ \A k \in DOMAIN task : task[k] = "done"

\* C10: a synthesis starts only with a slot of the 5, a slot is free again as
\* soon as its occupant has completed, and so the run ends at DONE with each
\* of the pending items admitted.
C10_GateLiveness ==
    /\ pc = "gather" =>
          /\ sem >= 0
          /\ sem + Cardinality(InFlight) = 5
    /\ RunEnded =>
          /\ pc = "done"
          /\ \A k \in DOMAIN task : to_generate[k].text \in synthStarted

\* every value of the manifest on disk names a file of the store
Backed ==
    diskManifest.exists =>
        \A v \in Values(diskManifest.content) : v \in DOMAIN store

\* C11: in build_tts.main, once every value of the manifest on disk has its
\* file in the store it stays so in every later state, the aborted one
\* included: a file is deleted only when the new manifest has replaced the old
\* one and does not reference it, and a run in which a synthesis failed
\* neither rewrites the manifest nor deletes a file.
C11_ManifestStaysBacked ==
    [][script = "build_tts" =>
          /\ Backed => Backed'
          /\ \A f \in DOMAIN store :
                f \notin DOMAIN store' =>
                   /\ diskManifest = File(manifest)
                   /\ f \notin Values(diskManifest.content)
          /\ (diskManifest' # diskManifest \/ \E f \in DOMAIN store : f \notin DOMAIN store') =>
                /\ \A k \in DOMAIN task : task[k] = "done"
                /\ pc' # "aborted"
          /\ (SynthesisFailed \/ SynthesisFailed') =>
                /\ diskManifest' = diskManifest
                /\ \A f \in DOMAIN store : f \in DOMAIN store']_vars

\* a run on the store of an older build was aborted by a failed synthesis after
\* another text was synthesized: the old manifest is still there with the file
\* of each of its values
C11_Witness ==
    /\ script = "build_tts"
    /\ pc = "aborted"
    /\ diskManifest.exists
    /\ Len(diskManifest.content) >= 2
    /\ diskManifest.content # manifest
    /\ Backed
    /\ \E k \in DOMAIN task : task[k] = "done"
    /\ \E k \in DOMAIN task : task[k] = "cancelled"

====
